---- MODULE Spec2Model ----
(***************************************************************************)
(* Epoch lifecycle of the Enigma principal node.                           *)
(*                                                                         *)
(*  - enclave side (enigma-principal/enclave/src/epoch_keeper_t/mod.rs):   *)
(*    the EPOCH map behind its SgxMutex, the sealed nonce document         *)
(*    "nonce.sealed", get_epoch, new_epoch and                             *)
(*    ecall_set_worker_params_internal, one step per statement that        *)
(*    changes state or can return early, and the lookup                    *)
(*    ecall_get_epoch_worker_internal;                                     *)
(*  - host side (enigma-principal/app/src/epochs): the caller              *)
(*    set_or_verify_worker_params and the SignedEpoch entity with          *)
(*    confirm and get_contract_addresses.                                  *)
(***************************************************************************)
EXTENDS Integers, Sequences, FiniteSets, TLC

VARIABLES
    EPOCH,          \* enclave: HashMap<U256, Epoch>, nonce -> [nonce, seed, worker_params]
    guard,          \* enclave: holder of the EPOCH SgxMutex, or NoThread
    nonce_sealed,   \* the sealed document nonce.sealed, or NoDocument
    pc,             \* per calling thread: position in set_or_verify_worker_params
    epoch,          \* per thread: the `epoch` argument, Option<SignedEpoch>
    worker_params,  \* per thread: the `worker_params` argument
    nonce_in,       \* per thread: 32-byte input buffer
    seed_in,        \* per thread: 32-byte input buffer
    nonce,          \* per thread: the enclave's local `nonce`
    nonce_out,      \* per thread: 32-byte output buffer
    rand_out,       \* per thread: 32-byte output buffer
    sig_out,        \* per thread: signature output buffer
    result,         \* per thread: what the last call returned
    retval,         \* per thread: the ecall's return value, as the caller sees it
    status,         \* per thread: the sgx_status_t of the ecall
    returned,       \* history: the sequence numbers mint requests were given, with
                    \* the enclave instance that gave them, in order of return
    calls,          \* history: number of calls started
    restarts,       \* history: number of enclave restarts
    signed_epoch,   \* host: the SignedEpoch entity confirm and the query act on
    last_confirm,   \* history: the arguments of the last confirm call on it
    query,          \* host: per worker, what get_contract_addresses last returned
                    \* since the entity last changed
    lookup          \* the last ecall_get_epoch_worker_internal: arguments and results

store_vars == <<EPOCH, guard, nonce_sealed>>
call_vars == <<pc, epoch, worker_params, nonce_in, seed_in, nonce, nonce_out,
               rand_out, sig_out, result, retval, status>>
hist_vars == <<returned, calls, restarts>>
entity_vars == <<signed_epoch, last_confirm, query>>
vars == <<store_vars, call_vars, hist_vars, entity_vars, lookup>>

----------------------------------------------------------------------------
(* Bounds of the model *)

MaxCalls == 3
MaxRestarts == 1

Threads == {"t1", "t2"}
NoThread == "none"
Seeds == {1, 258}
WorkerAddrs == {"wA", "wB", "wC"}
ScAddrs == {1, 2}
Blocks == {1, 2}

----------------------------------------------------------------------------
(* Constants of the program *)

INIT_NONCE == 0
SEAL_VERSION == 4660
BufLen == 32

----------------------------------------------------------------------------
(* Option<T>, Result<T, E> *)

None == [some |-> FALSE]
Some(x) == [some |-> TRUE, val |-> x]
Ok(x) == [ok |-> TRUE, val |-> x]
Err(e) == [ok |-> FALSE, err |-> e]
NoResult == [pending |-> TRUE]
IsOk(r) == "ok" \in DOMAIN r /\ r.ok
IsErr(r) == "ok" \in DOMAIN r /\ ~r.ok

Max(S) == CHOOSE x \in S : \A y \in S : y <= x

----------------------------------------------------------------------------
(* 32-byte big-endian buffers.  A buffer is kept as the function from the   *)
(* positions of its non-zero bytes to those bytes; every other position of  *)
(* 1..BufLen holds 0.  The model's numbers stay below 256^3, so only the    *)
(* last three bytes of a buffer (positions Low) are ever non-zero, and the  *)
(* conversions look at those positions only.                                *)

Pow256(k) == IF k = 0 THEN 1 ELSE IF k = 1 THEN 256 ELSE 65536

ZeroBuf == <<>>

Low == (BufLen - 2)..BufLen

Byte(buf, i) == IF i \in DOMAIN buf THEN buf[i] ELSE 0

ByteOf(n, i) == (n \div Pow256(BufLen - i)) % 256

\* the most significant byte first: byte i has weight 256^(BufLen - i)
ToBigEndian(n) == [i \in {j \in Low : ByteOf(n, j) # 0} |-> ByteOf(n, i)]

FromBigEndian(buf) ==
    Byte(buf, BufLen - 2) * Pow256(2) + Byte(buf, BufLen - 1) * Pow256(1)
        + Byte(buf, BufLen) * Pow256(0)

----------------------------------------------------------------------------
(* InputWorkerParams and its RLP encoding *)

InputWorkerParams(b, ws, ss) == [km_block_number |-> b, workers |-> ws, stakes |-> ss]

\* The snapshot a caller assembles for its k-th request: the reference block
\* grows with every request, and the active worker set changes with it.
WorkerParamsAt(k) ==
    IF k % 3 = 1
    THEN InputWorkerParams(k, <<"wA", "wB">>, <<1, 1>>)
    ELSE IF k % 3 = 2
         THEN InputWorkerParams(k, <<"wA">>, <<3>>)
         ELSE InputWorkerParams(k, <<"wA", "wB">>, <<0, 0>>)

encode(wp) == <<wp.km_block_number, wp.workers, wp.stakes>>

decode(rlp) == [block_number |-> rlp[1], workers |-> rlp[2], stakes |-> rlp[3]]

----------------------------------------------------------------------------
(* The enclave's Epoch, its raw encoding and the signing key *)

Epoch(n, s, wp) == [nonce |-> n, seed |-> s, worker_params |-> wp]

raw_encode(e) ==
    <<e.seed, e.nonce, e.worker_params.block_number,
      e.worker_params.workers, e.worker_params.stakes>>

ZeroSig == [signer |-> "zero", msg |-> <<>>]
Sign(msg) == [signer |-> "SIGNING_KEY", msg |-> msg]

----------------------------------------------------------------------------
(* SignedEpoch, the host's entity *)

\* Mutant: a new entity starts confirmed, with no worker selected.
SignedEpochNew_Confirmed(seed, sig, n, km) ==
    [seed |-> seed, sig |-> sig, nonce |-> n, km_block_number |-> km,
     confirmed_state |-> Some([selected_workers |-> <<>>, ether_block_number |-> km])]

\* SignedEpoch::new
SignedEpochNew(seed, sig, n, km) ==
    [seed |-> seed, sig |-> sig, nonce |-> n, km_block_number |-> km,
     confirmed_state |-> None]

\* An epoch no enclave ever produced, already confirmed by its holder.
ForgedEpoch ==
    [seed |-> 258, sig |-> [signer |-> "forger", msg |-> <<>>], nonce |-> 7,
     km_block_number |-> 1,
     confirmed_state |-> Some([selected_workers |-> (1 :> "wB"),
                               ether_block_number |-> 2])]

----------------------------------------------------------------------------
(* The sealed nonce document *)

\* `intact` tells whether the file still passes the checks of
\* load_sealed_document and unseal; a document is intact when it is saved.
NoDocument == [exists |-> FALSE]
SealedDocument(data) ==
    [exists |-> TRUE, version |-> SEAL_VERSION, data |-> data, intact |-> TRUE]
is_document(doc) == doc.exists

\* The outcomes of load_sealed_document and unseal on doc: a document that
\* does not pass the checks fails to load, an intact one can still fail to
\* be read.
LoadOutcomes(doc) == IF is_document(doc) /\ ~doc.intact THEN {FALSE} ELSE BOOLEAN

\* What can be found at the path of doc when a new enclave instance starts:
\* the file as it was left, or a file that no longer passes the checks.
FilesAtStart(doc) ==
    IF is_document(doc) THEN {doc, [doc EXCEPT !.intact = FALSE]} ELSE {doc}

----------------------------------------------------------------------------
(* get_epoch.  load_ok is the outcome of load_sealed_document and unseal,   *)
(* which the `?` operators turn into an early return.                       *)

\* Mutant: the entry with the smallest key is returned.
get_epoch_Oldest(epoch_map, block_number, doc, load_ok) ==
    IF block_number.some
    THEN Err("WorkerAuthError")
    ELSE IF DOMAIN epoch_map = {}
         THEN IF is_document(doc) /\ ~load_ok
              THEN Err("DocumentStorageError")
              ELSE Ok(None)
         ELSE Ok(Some(epoch_map[CHOOSE k \in DOMAIN epoch_map :
                                   \A j \in DOMAIN epoch_map : k <= j]))

\* Mutant: the block number is ignored and the latest epoch is returned.
get_epoch_IgnoresBlock(epoch_map, block_number, doc, load_ok) ==
    IF DOMAIN epoch_map = {}
    THEN IF is_document(doc) /\ ~load_ok
         THEN Err("DocumentStorageError")
         ELSE Ok(None)
    ELSE Ok(Some(epoch_map[Max(DOMAIN epoch_map)]))

\* Mutant: a document that fails to load counts as no document.
get_epoch_CorruptIsNone(epoch_map, block_number, doc, load_ok) ==
    IF block_number.some
    THEN Err("WorkerAuthError")
    ELSE IF DOMAIN epoch_map = {}
         THEN Ok(None)
         ELSE Ok(Some(epoch_map[Max(DOMAIN epoch_map)]))

get_epoch(epoch_map, block_number, doc, load_ok) ==
    IF block_number.some
    THEN Err("WorkerAuthError")
    ELSE IF DOMAIN epoch_map = {}
         THEN IF is_document(doc) /\ ~load_ok
              THEN Err("DocumentStorageError")
              ELSE Ok(None)          \* the unsealed marker is printed and dropped
         ELSE Ok(Some(epoch_map[Max(DOMAIN epoch_map)]))

\* Mutant: the previous maximum is reused instead of incremented.
NextNonce_NoIncrement(found, epoch_map) ==
    IF found.some THEN Max(DOMAIN epoch_map) ELSE INIT_NONCE

\* map_or_else(|| INIT_NONCE.into(), |_| guard.keys().max().unwrap() + 1)
NextNonce(found, epoch_map) ==
    IF found.some THEN Max(DOMAIN epoch_map) + 1 ELSE INIT_NONCE

----------------------------------------------------------------------------
(* State after construction *)

NoParams == InputWorkerParams(0, <<>>, <<>>)

\* `status` before the ecall has returned
NoStatus == "none"

\* `lookup` before any ecall_get_epoch_worker_internal
NoLookup == [called |-> FALSE]

StoreInit ==
    /\ EPOCH = <<>>
    /\ guard = NoThread
    /\ nonce_sealed = NoDocument

CallInit ==
    /\ pc = [t \in Threads |-> "idle"]
    /\ epoch = [t \in Threads |-> None]
    /\ worker_params = [t \in Threads |-> NoParams]
    /\ nonce_in = [t \in Threads |-> ZeroBuf]
    /\ seed_in = [t \in Threads |-> ZeroBuf]
    /\ nonce = [t \in Threads |-> 0]
    /\ nonce_out = [t \in Threads |-> ZeroBuf]
    /\ rand_out = [t \in Threads |-> ZeroBuf]
    /\ sig_out = [t \in Threads |-> ZeroSig]
    /\ result = [t \in Threads |-> NoResult]
    /\ retval = [t \in Threads |-> "Success"]
    /\ status = [t \in Threads |-> NoStatus]

HistInit ==
    /\ returned = <<>>
    /\ calls = 0
    /\ restarts = 0

NoConfirm == [called |-> FALSE]

EntityIdle ==
    /\ signed_epoch = SignedEpochNew(0, ZeroSig, 0, 0)
    /\ last_confirm = NoConfirm
    /\ query = [w \in WorkerAddrs |-> NoResult]
    /\ lookup = NoLookup

Init == StoreInit /\ CallInit /\ HistInit /\ EntityIdle

----------------------------------------------------------------------------
(* set_or_verify_worker_params: the caller's side of the ecall *)

\* The epochs a caller can pass: the one its last call gave it, or any
\* SignedEpoch it deserialized from elsewhere.
PriorEpochs(t) ==
    {None, Some(ForgedEpoch)}
        \cup (IF IsOk(result[t]) THEN {Some(result[t].val)} ELSE {})

\* An epoch whose seed and sequence number are both 0.
ZeroEpoch == SignedEpochNew(0, ZeroSig, 0, 0)

\* The epochs of PriorEpochs, and the zero epoch.
RequestEpochs(t) == PriorEpochs(t) \cup {Some(ZeroEpoch)}

\* Mutant: the nonce buffer gets the seed and the seed buffer the nonce.
InputBuffers_Swapped(e) ==
    IF e.some
    THEN [nonce_in |-> ToBigEndian(e.val.seed), seed_in |-> ToBigEndian(e.val.nonce)]
    ELSE [nonce_in |-> ZeroBuf, seed_in |-> ZeroBuf]

\* match epoch.clone() { Some(e) => (nonce, seed), None => ([0; 32], [0; 32]) }
InputBuffers(e) ==
    IF e.some
    THEN [nonce_in |-> ToBigEndian(e.val.nonce), seed_in |-> ToBigEndian(e.val.seed)]
    ELSE [nonce_in |-> ZeroBuf, seed_in |-> ZeroBuf]

\* Lines 37-59: marshal the arguments, zero the output buffers, enter the
\* ecall; the `epoch` argument is one of `epochs`.
CallWith(t, epochs) ==
    /\ pc[t] = "idle"
    /\ calls < MaxCalls
    /\ \E e \in epochs :
          /\ epoch' = [epoch EXCEPT ![t] = e]
          /\ nonce_in' = [nonce_in EXCEPT ![t] = InputBuffers(e).nonce_in]
          /\ seed_in' = [seed_in EXCEPT ![t] = InputBuffers(e).seed_in]
    /\ worker_params' = [worker_params EXCEPT ![t] = WorkerParamsAt(calls + 1)]
    /\ nonce_out' = [nonce_out EXCEPT ![t] = ZeroBuf]
    /\ rand_out' = [rand_out EXCEPT ![t] = ZeroBuf]
    /\ sig_out' = [sig_out EXCEPT ![t] = ZeroSig]
    /\ result' = [result EXCEPT ![t] = NoResult]
    /\ retval' = [retval EXCEPT ![t] = "Success"]
    /\ status' = [status EXCEPT ![t] = NoStatus]
    /\ pc' = [pc EXCEPT ![t] = "lock"]
    /\ calls' = calls + 1
    /\ UNCHANGED <<store_vars, nonce, returned, restarts, entity_vars, lookup>>

Call(t) == CallWith(t, PriorEpochs(t))

\* A call whose `epoch` argument may also be the zero epoch.
Request(t) == CallWith(t, RequestEpochs(t))

\* Mutant: the entity is always rebuilt from the output buffers.
EpochOut_AlwaysBuilt(e, wp, rand, nonce_buf, sig) ==
    SignedEpochNew(FromBigEndian(rand), sig, FromBigEndian(nonce_buf),
                   wp.km_block_number)

\* Mutant: the seed of the new entity is read from the nonce buffer.
EpochOut_SeedFromNonce(e, wp, rand, nonce_buf, sig) ==
    IF e.some
    THEN e.val
    ELSE SignedEpochNew(FromBigEndian(nonce_buf), sig, FromBigEndian(nonce_buf),
                        wp.km_block_number)

\* Mutant: the seed and the nonce of the new entity are read from each
\* other's buffer.
EpochOut_Swapped(e, wp, rand, nonce_buf, sig) ==
    IF e.some
    THEN e.val
    ELSE SignedEpochNew(FromBigEndian(nonce_buf), sig, FromBigEndian(rand),
                        wp.km_block_number)

\* match epoch { Some(epoch) => epoch, None => SignedEpoch::new(..) }
EpochOut(e, wp, rand, nonce_buf, sig) ==
    IF e.some
    THEN e.val
    ELSE SignedEpochNew(FromBigEndian(rand), sig, FromBigEndian(nonce_buf),
                        wp.km_block_number)

\* Mutant: only the enclave's return value is looked at.
ReturnValue_StatusIgnored(e, wp, rv, st, rand, nonce_buf, sig) ==
    IF rv # "Success"
    THEN Err([err |-> rv, status |-> st])
    ELSE Ok(EpochOut(e, wp, rand, nonce_buf, sig))

\* Lines 60-74: what the call returns for the ecall's retval and status.
ReturnValue(e, wp, rv, st, rand, nonce_buf, sig) ==
    IF rv # "Success" \/ st # "SGX_SUCCESS"
    THEN Err([err |-> rv, status |-> st])
    ELSE Ok(EpochOut(e, wp, rand, nonce_buf, sig))

\* The values the ecall leaves in thread t's retval, status and sig_out when
\* it ends with rv, st and sig; the other buffers are as the enclave left them.
ReturnOf(t, rv, st, sig) ==
    ReturnValue(epoch[t], worker_params[t], rv, st, rand_out[t], nonce_out[t], sig)

\* The ecall is back and the caller returns.  Only the caller's own data is
\* read, so this is one step with the ecall's last one; the buffers and the
\* enclave's locals go out of scope.
ClearLocals(t) ==
    /\ pc' = [pc EXCEPT ![t] = "idle"]
    /\ worker_params' = [worker_params EXCEPT ![t] = NoParams]
    /\ nonce_in' = [nonce_in EXCEPT ![t] = ZeroBuf]
    /\ seed_in' = [seed_in EXCEPT ![t] = ZeroBuf]
    /\ nonce' = [nonce EXCEPT ![t] = 0]
    /\ nonce_out' = [nonce_out EXCEPT ![t] = ZeroBuf]
    /\ rand_out' = [rand_out EXCEPT ![t] = ZeroBuf]
    /\ sig_out' = [sig_out EXCEPT ![t] = ZeroSig]

Return(t, rv, st, sig) ==
    /\ retval' = [retval EXCEPT ![t] = rv]
    /\ status' = [status EXCEPT ![t] = st]
    /\ result' = [result EXCEPT ![t] = ReturnOf(t, rv, st, sig)]
    /\ ClearLocals(t)
    /\ UNCHANGED epoch

----------------------------------------------------------------------------
(* ecall_set_worker_params_internal *)

\* An early return through `?`: the guard is dropped and the error becomes
\* the ecall's return value.
EnclaveFail(t, e) ==
    /\ guard' = NoThread
    /\ Return(t, e, "SGX_SUCCESS", sig_out[t])

\* Mutant: the map is used without waiting for the mutex.
Lock_NoWait(t) ==
    /\ pc[t] = "lock"
    /\ guard' = t
    /\ pc' = [pc EXCEPT ![t] = "get_epoch"]
    /\ UNCHANGED <<EPOCH, nonce_sealed, epoch, worker_params, nonce_in, seed_in,
                   nonce, nonce_out, rand_out, sig_out, result, retval, status, hist_vars,
                   entity_vars, lookup>>

\* let mut guard = EPOCH.lock_expect("Epoch");
Lock(t) ==
    /\ pc[t] = "lock"
    /\ guard = NoThread
    /\ guard' = t
    /\ pc' = [pc EXCEPT ![t] = "get_epoch"]
    /\ UNCHANGED <<EPOCH, nonce_sealed, epoch, worker_params, nonce_in, seed_in,
                   nonce, nonce_out, rand_out, sig_out, result, retval, status, hist_vars,
                   entity_vars, lookup>>

\* let nonce = get_epoch(&*guard, None)?.map_or_else(..); *nonce_out = nonce
ComputeNonce(t) ==
    /\ pc[t] = "get_epoch"
    /\ UNCHANGED <<EPOCH, nonce_sealed, returned, calls, restarts, entity_vars, lookup>>
    /\ \E load_ok \in LoadOutcomes(nonce_sealed) :
         LET r == get_epoch(EPOCH, None, nonce_sealed, load_ok) IN
         \/ /\ IsOk(r)
            /\ nonce' = [nonce EXCEPT ![t] = NextNonce(r.val, EPOCH)]
            /\ nonce_out' = [nonce_out EXCEPT ![t] = ToBigEndian(NextNonce(r.val, EPOCH))]
            /\ pc' = [pc EXCEPT ![t] = "rand"]
            /\ UNCHANGED <<guard, epoch, worker_params, nonce_in, seed_in,
                           rand_out, sig_out, result, retval, status>>
         \/ /\ IsErr(r)
            /\ EnclaveFail(t, r.err)

\* Mutant: the error return of the random source keeps the guard.
ReadRand_LockKept(t) ==
    /\ pc[t] = "rand"
    /\ UNCHANGED <<EPOCH, nonce_sealed, returned, calls, restarts, entity_vars, lookup>>
    /\ \/ /\ \E s \in Seeds : rand_out' = [rand_out EXCEPT ![t] = ToBigEndian(s)]
          /\ pc' = [pc EXCEPT ![t] = "new_epoch"]
          /\ UNCHANGED <<guard, epoch, worker_params, nonce_in, seed_in,
                         nonce, nonce_out, sig_out, result, retval, status>>
       \/ /\ Return(t, "SgxError", "SGX_SUCCESS", sig_out[t])
          /\ UNCHANGED guard

\* rsgx_read_rand(&mut rand_out[..])?;
ReadRand(t) ==
    /\ pc[t] = "rand"
    /\ UNCHANGED <<EPOCH, nonce_sealed, returned, calls, restarts, entity_vars, lookup>>
    /\ \/ /\ \E s \in Seeds : rand_out' = [rand_out EXCEPT ![t] = ToBigEndian(s)]
          /\ pc' = [pc EXCEPT ![t] = "new_epoch"]
          /\ UNCHANGED <<guard, epoch, worker_params, nonce_in, seed_in,
                         nonce, nonce_out, sig_out, result, retval, status>>
       \/ EnclaveFail(t, "SgxError")

\* Mutant: the marker is not saved before the epoch is stored in the map.
SealMarker_Skipped(t) ==
    /\ pc[t] = "new_epoch"
    /\ pc' = [pc EXCEPT ![t] = "insert"]
    /\ UNCHANGED <<store_vars, epoch, worker_params, nonce_in, seed_in, nonce,
                   nonce_out, rand_out, sig_out, result, retval, status, hist_vars, entity_vars, lookup>>

\* Mutant: new_epoch refuses to add a third epoch to the map.
SealMarker_Capped(t) ==
    /\ pc[t] = "new_epoch"
    /\ UNCHANGED <<EPOCH, returned, calls, restarts, entity_vars, lookup>>
    /\ IF Cardinality(DOMAIN EPOCH) >= 2
       THEN /\ EnclaveFail(t, "EpochCapError")
            /\ UNCHANGED nonce_sealed
       ELSE /\ nonce_sealed' = SealedDocument(ToBigEndian(nonce[t]))
            /\ pc' = [pc EXCEPT ![t] = "insert"]
            /\ UNCHANGED <<guard, epoch, worker_params, nonce_in, seed_in,
                           nonce, nonce_out, rand_out, sig_out, result, retval, status>>

\* Mutant: the marker is sealed with the number of the previous epoch.
SealMarker_SealsPrevious(t) ==
    /\ pc[t] = "new_epoch"
    /\ UNCHANGED <<EPOCH, returned, calls, restarts, entity_vars, lookup>>
    /\ \/ /\ nonce_sealed' = SealedDocument(ToBigEndian(IF nonce[t] = 0 THEN 0
                                                          ELSE nonce[t] - 1))
          /\ pc' = [pc EXCEPT ![t] = "insert"]
          /\ UNCHANGED <<guard, epoch, worker_params, nonce_in, seed_in,
                         nonce, nonce_out, rand_out, sig_out, result, retval, status>>
       \/ /\ EnclaveFail(t, "SgxError")
          /\ UNCHANGED nonce_sealed

\* Mutant: a save that fails has already replaced the document.
SealMarker_FailsAfterSave(t) ==
    /\ pc[t] = "new_epoch"
    /\ UNCHANGED <<EPOCH, returned, calls, restarts, entity_vars, lookup>>
    /\ nonce_sealed' = SealedDocument(ToBigEndian(nonce[t]))
    /\ \/ /\ pc' = [pc EXCEPT ![t] = "insert"]
          /\ UNCHANGED <<guard, epoch, worker_params, nonce_in, seed_in,
                         nonce, nonce_out, rand_out, sig_out, result, retval, status>>
       \/ EnclaveFail(t, "SgxError")

\* new_epoch, lines 76-86: seal the marker and save it to nonce.sealed
SealMarker(t) ==
    /\ pc[t] = "new_epoch"
    /\ UNCHANGED <<EPOCH, returned, calls, restarts, entity_vars, lookup>>
    /\ \/ /\ nonce_sealed' = SealedDocument(ToBigEndian(nonce[t]))
          /\ pc' = [pc EXCEPT ![t] = "insert"]
          /\ UNCHANGED <<guard, epoch, worker_params, nonce_in, seed_in,
                         nonce, nonce_out, rand_out, sig_out, result, retval, status>>
       \/ /\ EnclaveFail(t, "SgxError")
          /\ UNCHANGED nonce_sealed

\* Mutant: the epoch is built without the worker parameters of the call.
NewEpochOf_NoParams(t) ==
    Epoch(nonce[t], FromBigEndian(rand_out[t]), decode(encode(NoParams)))

\* The Epoch new_epoch builds: seed = U256::from(rand_out), the decoded params
NewEpochOf(t) ==
    Epoch(nonce[t], FromBigEndian(rand_out[t]), decode(encode(worker_params[t])))

\* Mutant: the epoch is stored under its seed.
InsertEpoch_KeyedBySeed(t) ==
    /\ pc[t] = "insert"
    /\ EPOCH' = [k \in DOMAIN EPOCH \cup {NewEpochOf(t).seed} |->
                    IF k = NewEpochOf(t).seed THEN NewEpochOf(t) ELSE EPOCH[k]]
    /\ pc' = [pc EXCEPT ![t] = "sign"]
    /\ UNCHANGED <<guard, nonce_sealed, epoch, worker_params, nonce_in, seed_in,
                   nonce, nonce_out, rand_out, sig_out, result, retval, status, hist_vars,
                   entity_vars, lookup>>

\* Mutant: the map keeps the new epoch only.
InsertEpoch_Replaces(t) ==
    /\ pc[t] = "insert"
    /\ EPOCH' = [k \in {nonce[t]} |-> NewEpochOf(t)]
    /\ pc' = [pc EXCEPT ![t] = "sign"]
    /\ UNCHANGED <<guard, nonce_sealed, epoch, worker_params, nonce_in, seed_in,
                   nonce, nonce_out, rand_out, sig_out, result, retval, status,
                   hist_vars, entity_vars, lookup>>

\* new_epoch, lines 88-99: nonce_map.insert(nonce, epoch.clone())
InsertEpoch(t) ==
    /\ pc[t] = "insert"
    /\ EPOCH' = [k \in DOMAIN EPOCH \cup {nonce[t]} |->
                    IF k = nonce[t] THEN NewEpochOf(t) ELSE EPOCH[k]]
    /\ pc' = [pc EXCEPT ![t] = "sign"]
    /\ UNCHANGED <<guard, nonce_sealed, epoch, worker_params, nonce_in, seed_in,
                   nonce, nonce_out, rand_out, sig_out, result, retval, status, hist_vars,
                   entity_vars, lookup>>

\* Mutant: when signing fails the mint is tried again from get_epoch.
SignEpoch_Retries(t) ==
    /\ pc[t] = "sign"
    /\ UNCHANGED <<EPOCH, nonce_sealed, calls, restarts, entity_vars, lookup>>
    /\ \/ /\ guard' = NoThread
          /\ Return(t, "Success", "SGX_SUCCESS", Sign(raw_encode(NewEpochOf(t))))
          /\ returned' = IF epoch[t].some
                          THEN returned
                          ELSE Append(returned, [nonce |-> result'[t].val.nonce,
                                                 inst |-> restarts])
       \/ /\ pc' = [pc EXCEPT ![t] = "get_epoch"]
          /\ UNCHANGED <<guard, epoch, worker_params, nonce_in, seed_in, nonce,
                         nonce_out, rand_out, sig_out, result, retval, status,
                         returned>>

\* let msg = epoch.raw_encode()?; *sig_out = SIGNING_KEY.sign(&msg)?; Ok(())
SignEpoch(t) ==
    /\ pc[t] = "sign"
    /\ UNCHANGED <<EPOCH, nonce_sealed, calls, restarts, entity_vars, lookup>>
    /\ \/ /\ guard' = NoThread
          /\ Return(t, "Success", "SGX_SUCCESS", Sign(raw_encode(NewEpochOf(t))))
          /\ returned' = IF epoch[t].some
                          THEN returned
                          ELSE Append(returned, [nonce |-> result'[t].val.nonce,
                                                 inst |-> restarts])
       \/ /\ EnclaveFail(t, "SigningError")
          /\ UNCHANGED returned

----------------------------------------------------------------------------
(* The enclave is destroyed and created again: EPOCH, a lazy_static, starts *)
(* empty, nonce.sealed stays on disk, where it is out of the enclave's      *)
(* hands until it is loaded again, and every ecall in flight returns        *)
(* SGX_ERROR_ENCLAVE_LOST to its caller, its retval still Success.          *)

InEnclave(t) == pc[t] # "idle"

Restart ==
    /\ restarts < MaxRestarts
    /\ EPOCH' = <<>>
    /\ nonce_sealed' \in FilesAtStart(nonce_sealed)
    /\ guard' = NoThread
    /\ result' = [t \in Threads |->
                    IF InEnclave(t)
                    THEN ReturnOf(t, "Success", "SGX_ERROR_ENCLAVE_LOST", sig_out[t])
                    ELSE result[t]]
    /\ status' = [t \in Threads |->
                    IF InEnclave(t) THEN "SGX_ERROR_ENCLAVE_LOST" ELSE status[t]]
    /\ pc' = [t \in Threads |-> "idle"]
    /\ worker_params' = [t \in Threads |-> NoParams]
    /\ nonce_in' = [t \in Threads |-> ZeroBuf]
    /\ seed_in' = [t \in Threads |-> ZeroBuf]
    /\ nonce' = [t \in Threads |-> 0]
    /\ nonce_out' = [t \in Threads |-> ZeroBuf]
    /\ rand_out' = [t \in Threads |-> ZeroBuf]
    /\ sig_out' = [t \in Threads |-> ZeroSig]
    /\ restarts' = restarts + 1
    /\ UNCHANGED <<epoch, retval, returned, calls, entity_vars, lookup>>

----------------------------------------------------------------------------
(* The Worker Selector, InputWorkerParams::get_selected_worker: the seed    *)
(* and the contract address are hashed into a uniform value, which is       *)
(* mapped onto the cumulative stakes of the worker list.                    *)

RECURSIVE SumStakes(_, _)
SumStakes(stakes, i) ==
    IF i > Len(stakes) THEN 0 ELSE stakes[i] + SumStakes(stakes, i + 1)

Hash(seed, sc_address) == (seed * 31 + sc_address * 17) % 97

RECURSIVE PickWorker(_, _, _)
PickWorker(wp, i, token) ==
    IF i >= Len(wp.workers) \/ token < wp.stakes[i]
    THEN wp.workers[i]
    ELSE PickWorker(wp, i + 1, token - wp.stakes[i])

get_selected_worker(wp, sc_address, seed) ==
    IF Len(wp.workers) = 0 \/ SumStakes(wp.stakes, 1) = 0
    THEN None
    ELSE Some(PickWorker(wp, 1, Hash(seed, sc_address) % SumStakes(wp.stakes, 1)))

----------------------------------------------------------------------------
(* ecall_get_epoch_worker_internal.  The guard is taken on entry and held   *)
(* until the function returns, and nothing but the map and nonce.sealed is  *)
(* read, so a lookup is one step, taken when the mutex is free.             *)

\* Epoch::get_selected_worker(sc_addr): the selector on the epoch's own seed
\* and worker_params; no selection is an error of the ecall.
Epoch_get_selected_worker(e, sc_addr) ==
    LET worker == get_selected_worker(e.worker_params, sc_addr, e.seed) IN
    IF worker.some THEN Ok(worker.val) ELSE Err("WorkerAuthError")

\* Mutant: when no epoch is found the first worker address is returned.
get_epoch_worker_NoneIsFirst(found, sc_addr) ==
    IF IsErr(found) THEN Err(found.err)
    ELSE IF ~found.val.some THEN Ok("wA")
    ELSE Epoch_get_selected_worker(found.val.val, sc_addr)

\* match get_epoch(&guard, block_number)? { Some(epoch) => .., None => Err }
\* and then epoch.get_selected_worker(sc_addr)?
get_epoch_worker(found, sc_addr) ==
    IF IsErr(found) THEN Err(found.err)
    ELSE IF ~found.val.some THEN Err("WorkerAuthError")
    ELSE Epoch_get_selected_worker(found.val.val, sc_addr)

\* The block numbers a lookup is made with
LookupBlocks == {None, Some(1)}

\* Mutant: the lookup reads the map without taking the mutex.
GetEpochWorker_NoLock ==
    /\ \E sc_addr \in ScAddrs, block_number \in LookupBlocks,
          load_ok \in LoadOutcomes(nonce_sealed) :
          LET found == get_epoch(EPOCH, block_number, nonce_sealed, load_ok) IN
          lookup' = [called |-> TRUE, sc_addr |-> sc_addr,
                     block_number |-> block_number, found |-> found,
                     worker |-> get_epoch_worker(found, sc_addr)]
    /\ UNCHANGED <<store_vars, call_vars, hist_vars, entity_vars>>

\* Mutant: a lookup that finds an epoch stores it again under the next key.
GetEpochWorker_Inserts ==
    /\ guard = NoThread
    /\ \E sc_addr \in ScAddrs, block_number \in LookupBlocks,
          load_ok \in LoadOutcomes(nonce_sealed) :
          LET found == get_epoch(EPOCH, block_number, nonce_sealed, load_ok) IN
          /\ lookup' = [called |-> TRUE, sc_addr |-> sc_addr,
                        block_number |-> block_number, found |-> found,
                        worker |-> get_epoch_worker(found, sc_addr)]
          /\ EPOCH' = IF IsOk(found) /\ found.val.some /\ Cardinality(DOMAIN EPOCH) < MaxCalls
                      THEN [k \in DOMAIN EPOCH \cup {Max(DOMAIN EPOCH) + 1} |->
                              IF k \in DOMAIN EPOCH THEN EPOCH[k] ELSE found.val.val]
                      ELSE EPOCH
    /\ UNCHANGED <<guard, nonce_sealed, call_vars, hist_vars, entity_vars>>

GetEpochWorker ==
    /\ guard = NoThread
    /\ \E sc_addr \in ScAddrs, block_number \in LookupBlocks,
          load_ok \in LoadOutcomes(nonce_sealed) :
          LET found == get_epoch(EPOCH, block_number, nonce_sealed, load_ok) IN
          lookup' = [called |-> TRUE, sc_addr |-> sc_addr,
                     block_number |-> block_number, found |-> found,
                     worker |-> get_epoch_worker(found, sc_addr)]
    /\ UNCHANGED <<store_vars, call_vars, hist_vars, entity_vars>>

----------------------------------------------------------------------------
(* SignedEpoch::confirm and SignedEpoch::get_contract_addresses *)

\* for sc_address in sc_addresses { match get_selected_worker { Some => insert } }
RECURSIVE SelectWorkers(_, _, _, _, _)
SelectWorkers(seed, wp, sc_addresses, i, selected_workers) ==
    IF i > Len(sc_addresses)
    THEN selected_workers
    ELSE LET sc_address == sc_addresses[i]
             worker == get_selected_worker(wp, sc_address, seed)
         IN  SelectWorkers(seed, wp, sc_addresses, i + 1,
                 IF worker.some
                 THEN [a \in DOMAIN selected_workers \cup {sc_address} |->
                          IF a = sc_address THEN worker.val ELSE selected_workers[a]]
                 ELSE selected_workers)

\* Mutant: the block of the snapshot is taken over as the epoch's own.
confirm_TakesKmBlock(self, ether_block_number, wp, sc_addresses) ==
    [self EXCEPT !.km_block_number = wp.km_block_number,
                 !.confirmed_state =
        Some([selected_workers |-> SelectWorkers(self.seed, wp, sc_addresses, 1, <<>>),
              ether_block_number |-> ether_block_number])]

\* Mutant: an epoch for which no worker was selected stays unconfirmed.
confirm_NothingSelected(self, ether_block_number, wp, sc_addresses) ==
    IF SelectWorkers(self.seed, wp, sc_addresses, 1, <<>>) = <<>>
    THEN self
    ELSE [self EXCEPT !.confirmed_state =
             Some([selected_workers |-> SelectWorkers(self.seed, wp, sc_addresses, 1, <<>>),
                   ether_block_number |-> ether_block_number])]

\* Mutant: confirm also clears the signature of the entity.
confirm_ClearsSig(self, ether_block_number, wp, sc_addresses) ==
    [self EXCEPT !.sig = ZeroSig,
                 !.confirmed_state =
        Some([selected_workers |-> SelectWorkers(self.seed, wp, sc_addresses, 1, <<>>),
              ether_block_number |-> ether_block_number])]

\* Mutant: the epoch's nonce is mixed into the seed of the selection.
confirm_NonceInSeed(self, ether_block_number, wp, sc_addresses) ==
    [self EXCEPT !.confirmed_state =
        Some([selected_workers |->
                 SelectWorkers(self.seed + self.nonce, wp, sc_addresses, 1, <<>>),
              ether_block_number |-> ether_block_number])]

confirm(self, ether_block_number, wp, sc_addresses) ==
    [self EXCEPT !.confirmed_state =
        Some([selected_workers |-> SelectWorkers(self.seed, wp, sc_addresses, 1, <<>>),
              ether_block_number |-> ether_block_number])]

\* The orders in which a HashMap can yield the keys in S
Orders(S) ==
    {v \in [1..Cardinality(S) -> S] : \A i, j \in 1..Cardinality(S) : v[i] = v[j] => i = j}

\* Mutant: every confirmed address is pushed, whoever its worker is.
get_contract_addresses_Unfiltered(self, worker) ==
    IF self.confirmed_state.some
    THEN {Ok(addrs) : addrs \in Orders(DOMAIN self.confirmed_state.val.selected_workers)}
    ELSE {Err("UnconfirmedState")}

\* Mutant: an unconfirmed epoch answers with an empty list.
get_contract_addresses_NoError(self, worker) ==
    IF self.confirmed_state.some
    THEN LET selected_workers == self.confirmed_state.val.selected_workers IN
         {Ok(addrs) : addrs \in Orders({addr \in DOMAIN selected_workers :
                                           selected_workers[addr] = worker})}
    ELSE {Ok(<<>>)}

\* The results get_contract_addresses can return: the Vec is filled in the
\* iteration order of the HashMap, which is unspecified.
get_contract_addresses(self, worker) ==
    IF self.confirmed_state.some
    THEN LET selected_workers == self.confirmed_state.val.selected_workers IN
         {Ok(addrs) : addrs \in Orders({addr \in DOMAIN selected_workers :
                                           selected_workers[addr] = worker})}
    ELSE {Err("UnconfirmedState")}

----------------------------------------------------------------------------
(* The entity on its own: an epoch as a mint returns it, then any number of *)
(* confirm and get_contract_addresses calls on it.                          *)

\* The worker snapshots a caller confirms with
ConfirmParams ==
    { InputWorkerParams(1, <<>>, <<>>),
      InputWorkerParams(1, <<"wA", "wB">>, <<0, 0>>),
      InputWorkerParams(1, <<"wA", "wB">>, <<1, 1>>),
      InputWorkerParams(2, <<"wA", "wB">>, <<0, 2>>),
      InputWorkerParams(2, <<"wB", "wA">>, <<1, 3>>) }

\* Vec<Hash256>: the address lists, with repetitions, of up to two addresses
ScAddressLists == {<<>>} \cup [1..1 -> ScAddrs] \cup [1..2 -> ScAddrs]

MintedEpoch(n, s, wp) ==
    EpochOut(None, wp, ToBigEndian(s), ToBigEndian(n),
             Sign(raw_encode(Epoch(n, s, decode(encode(wp))))))

EntityInit ==
    /\ \E k \in 1..MaxCalls, s \in Seeds :
          signed_epoch = MintedEpoch(k - 1, s, WorkerParamsAt(k))
    /\ last_confirm = NoConfirm
    /\ query = [w \in WorkerAddrs |-> NoResult]
    /\ lookup = NoLookup

Confirm ==
    /\ \E b \in Blocks, wp \in ConfirmParams, scs \in ScAddressLists :
          /\ signed_epoch' = confirm(signed_epoch, b, wp, scs)
          /\ last_confirm' = [called |-> TRUE, ether_block_number |-> b,
                              worker_params |-> wp, sc_addresses |-> scs]
    /\ query' = [w \in WorkerAddrs |-> NoResult]
    /\ UNCHANGED <<store_vars, call_vars, hist_vars, lookup>>

Query ==
    /\ \E w \in WorkerAddrs :
          \E r \in get_contract_addresses(signed_epoch, w) :
             query' = [query EXCEPT ![w] = r]
    /\ UNCHANGED <<store_vars, call_vars, hist_vars, signed_epoch, last_confirm, lookup>>

NextEpoch == Confirm \/ Query

InitEpoch == StoreInit /\ CallInit /\ HistInit /\ EntityInit

SpecEpoch == InitEpoch /\ [][NextEpoch]_vars

----------------------------------------------------------------------------

Next ==
    \/ \E t \in Threads : Call(t)
    \/ \E t \in Threads : Lock(t)
    \/ \E t \in Threads : ComputeNonce(t)
    \/ \E t \in Threads : ReadRand(t)
    \/ \E t \in Threads : SealMarker(t)
    \/ \E t \in Threads : InsertEpoch(t)
    \/ \E t \in Threads : SignEpoch(t)
    \/ Restart

Spec == Init /\ [][Next]_vars

----------------------------------------------------------------------------
(* The store with its readers: the calls of one minting thread, restarts,   *)
(* and lookups through ecall_get_epoch_worker_internal.                     *)

Minter == "t1"

NextLookup ==
    \/ Call(Minter)
    \/ Lock(Minter)
    \/ ComputeNonce(Minter)
    \/ ReadRand(Minter)
    \/ SealMarker(Minter)
    \/ InsertEpoch(Minter)
    \/ SignEpoch(Minter)
    \/ Restart
    \/ GetEpochWorker

SpecLookup == Init /\ [][NextLookup]_vars

----------------------------------------------------------------------------
(* The store's mutex under contention: the minting thread makes mint calls  *)
(* and a second thread makes lookup calls, a lookup waiting for the mutex   *)
(* like a mint does.  The enclave is not replaced.                          *)

Reader == "t2"

\* A thread enters ecall_get_epoch_worker_internal; what the previous lookup
\* returned is gone.
LookupCall(t) ==
    /\ pc[t] = "idle"
    /\ pc' = [pc EXCEPT ![t] = "lookup_lock"]
    /\ lookup' = NoLookup
    /\ UNCHANGED <<store_vars, epoch, worker_params, nonce_in, seed_in, nonce,
                   nonce_out, rand_out, sig_out, result, retval, status,
                   hist_vars, entity_vars>>

\* let guard = EPOCH.lock_expect("Epoch");
LookupLock(t) ==
    /\ pc[t] = "lookup_lock"
    /\ guard = NoThread
    /\ guard' = t
    /\ pc' = [pc EXCEPT ![t] = "lookup"]
    /\ UNCHANGED <<EPOCH, nonce_sealed, epoch, worker_params, nonce_in, seed_in,
                   nonce, nonce_out, rand_out, sig_out, result, retval, status,
                   hist_vars, entity_vars, lookup>>

\* Lines 129-137: get_epoch and the selection, then the guard is dropped on
\* the Ok return and on each error return alike.
LookupRead(t) ==
    /\ pc[t] = "lookup"
    /\ \E sc_addr \in ScAddrs, block_number \in LookupBlocks,
          load_ok \in LoadOutcomes(nonce_sealed) :
          LET found == get_epoch(EPOCH, block_number, nonce_sealed, load_ok) IN
          lookup' = [called |-> TRUE, sc_addr |-> sc_addr,
                     block_number |-> block_number, found |-> found,
                     worker |-> get_epoch_worker(found, sc_addr)]
    /\ guard' = NoThread
    /\ pc' = [pc EXCEPT ![t] = "idle"]
    /\ UNCHANGED <<EPOCH, nonce_sealed, epoch, worker_params, nonce_in, seed_in,
                   nonce, nonce_out, rand_out, sig_out, result, retval, status,
                   hist_vars, entity_vars>>

NextLive ==
    \/ Call(Minter)
    \/ Lock(Minter)
    \/ ComputeNonce(Minter)
    \/ ReadRand(Minter)
    \/ SealMarker(Minter)
    \/ InsertEpoch(Minter)
    \/ SignEpoch(Minter)
    \/ LookupCall(Reader)
    \/ LookupLock(Reader)
    \/ LookupRead(Reader)

\* The mutex is fair: a thread that can take it again and again does take
\* it.
FairLock ==
    SF_vars(Lock(Minter)) /\ SF_vars(LookupLock(Reader))

\* The steps of a mint between taking the guard and returning; at most one
\* of them is enabled at a time.
MintSteps(t) ==
    \/ ComputeNonce(t)
    \/ ReadRand(t)
    \/ SealMarker(t)
    \/ InsertEpoch(t)
    \/ SignEpoch(t)

\* Every step inside the enclave terminates.
PrimitivesTerminate ==
    WF_vars(MintSteps(Minter)) /\ WF_vars(LookupRead(Reader))

SpecLive == Init /\ [][NextLive]_vars /\ FairLock /\ PrimitivesTerminate

----------------------------------------------------------------------------
(* The requests of one thread, with every kind of `epoch` argument.         *)

NextRequest ==
    \/ Request(Minter)
    \/ Lock(Minter)
    \/ ComputeNonce(Minter)
    \/ ReadRand(Minter)
    \/ SealMarker(Minter)
    \/ InsertEpoch(Minter)
    \/ SignEpoch(Minter)

SpecRequest == Init /\ [][NextRequest]_vars

----------------------------------------------------------------------------
(* Properties of the Secure Epoch Store                                     *)

InFlight == {t \in Threads : pc[t] # "idle"}
Critical == {t \in Threads : pc[t] \in {"get_epoch", "rand", "new_epoch", "insert", "sign"}}
Range(f) == {f[i] : i \in DOMAIN f}
SealedNonce == FromBigEndian(nonce_sealed.data)

\* Every call made so far was a mint request (no epoch supplied) and every
\* one that is back returned Ok.
OnlySuccessfulMints ==
    /\ calls = Len(returned) + Cardinality(InFlight)
    /\ \A t \in InFlight : ~epoch[t].some

(* C1: against a fresh store (no restart), when every request is a mint     *)
(* request and succeeds, the i-th returned sequence number is i-1; and the  *)
(* nonce a mint computes is the maximum key of the map plus 1, or 0 when    *)
(* the map is empty.                                                        *)
C1_Monotonic ==
    /\ (restarts = 0 /\ OnlySuccessfulMints) =>
          \A i \in 1..Len(returned) : returned[i].nonce = i - 1
    /\ \A t \in Threads :
          pc[t] \in {"rand", "new_epoch", "insert"} =>
             nonce[t] = IF DOMAIN EPOCH = {} THEN 0 ELSE Max(DOMAIN EPOCH) + 1

C1_Witness ==
    /\ restarts = 0
    /\ OnlySuccessfulMints
    /\ Len(returned) = 3
    /\ returned[3].nonce = 2

(* C2: the sequence numbers successive mints return never repeat and never  *)
(* decrease, restarts included.                                             *)
C2_NeverRepeats ==
    \A i, j \in 1..Len(returned) : i < j => returned[i].nonce < returned[j].nonce

(* C3: within a mint the marker is sealed before the epoch is inserted, and *)
(* the epoch is inserted before the call returns: a mint that has not yet   *)
(* inserted has no entry in the map, one that is about to insert or has     *)
(* inserted has its nonce in the sealed document, one that has inserted has *)
(* not yet returned, and every mint of this enclave instance that returned  *)
(* Ok has its entry in the map and a sealed document at or above it.        *)
C3_SealInsertReturn ==
    /\ \A t \in Threads :
          /\ pc[t] \in {"get_epoch", "rand", "new_epoch", "insert", "sign"} =>
                result[t] = NoResult
          /\ pc[t] \in {"rand", "new_epoch", "insert"} => nonce[t] \notin DOMAIN EPOCH
          /\ pc[t] \in {"insert", "sign"} =>
                nonce_sealed = SealedDocument(ToBigEndian(nonce[t]))
          /\ pc[t] = "sign" => nonce[t] \in DOMAIN EPOCH
    /\ \A i \in 1..Len(returned) :
          returned[i].inst = restarts =>
             /\ returned[i].nonce \in DOMAIN EPOCH
             /\ is_document(nonce_sealed)
             /\ SealedNonce >= returned[i].nonce

C3_Witness ==
    \E t \in Threads :
       /\ pc[t] = "sign"
       /\ ~epoch[t].some
       /\ Len(returned) = 1
       /\ returned[1].inst = restarts

(* C4: every sequence number a mint has returned is at most the number      *)
(* recorded in the sealed nonce document.                                   *)
C4_NoPhantom ==
    \A i \in 1..Len(returned) :
       /\ is_document(nonce_sealed)
       /\ returned[i].nonce <= SealedNonce

(* C5: a call that was given an epoch and returns Ok returns that epoch,    *)
(* whatever the enclave wrote to the output buffers.                        *)
C5_PriorPassedThrough ==
    \A t \in Threads :
       (pc[t] = "idle" /\ epoch[t].some /\ IsOk(result[t])) =>
          result[t].val = epoch[t].val

C5_Witness ==
    \E t \in Threads :
       /\ pc[t] = "idle"
       /\ epoch[t] = Some(ForgedEpoch)
       /\ result[t] = Ok(ForgedEpoch)
       /\ DOMAIN EPOCH = {0}
       /\ EPOCH[0].seed # ForgedEpoch.seed

(* C6: while a call that was given an epoch is inside the enclave, the map  *)
(* and the sealed nonce document do not change.                             *)
C6_ReattestationReadOnly ==
    [][\A t \in Threads :
          (guard = t /\ epoch[t].some /\ restarts' = restarts) =>
             (EPOCH' = EPOCH /\ nonce_sealed' = nonce_sealed)]_vars

(* C7: a call that was given an epoch returns Ok only if that epoch's       *)
(* sequence number is one the enclave has given to a mint request.          *)
C7_MismatchRejected ==
    \A t \in Threads :
       (pc[t] = "idle" /\ epoch[t].some /\ IsOk(result[t])) =>
          \E i \in 1..Len(returned) : returned[i].nonce = epoch[t].val.nonce

(* C8: at most one call is between acquiring the mutex and returning, it is *)
(* the holder of the mutex, the nonce it computed was not given out by this *)
(* enclave instance before, and no two mints of one enclave instance        *)
(* returned the same sequence number.                                       *)
C8_MutualExclusion ==
    /\ Cardinality(Critical) <= 1
    /\ \A t \in Critical : guard = t
    /\ \A t \in Threads :
          pc[t] \in {"rand", "new_epoch", "insert", "sign"} =>
             \A i \in 1..Len(returned) :
                returned[i].inst = restarts => returned[i].nonce # nonce[t]
    /\ \A i, j \in 1..Len(returned) :
          (i < j /\ returned[i].inst = returned[j].inst) =>
             returned[i].nonce # returned[j].nonce

C8_Witness ==
    \E t, u \in Threads :
       /\ pc[t] = "sign"
       /\ pc[u] = "lock"
       /\ ~epoch[t].some
       /\ ~epoch[u].some
       /\ Len(returned) = 1
       /\ returned[1].inst = restarts

----------------------------------------------------------------------------
(* Properties of the SignedEpoch entity                                     *)

\* The addresses last confirmed, and those the selector gives to worker w
ConfirmedAddrs == Range(last_confirm.sc_addresses)
AssignedTo(w) ==
    {a \in ConfirmedAddrs :
        get_selected_worker(last_confirm.worker_params, a, signed_epoch.seed) = Some(w)}
Queried == {w \in WorkerAddrs : query[w] # NoResult}

(* C9: after confirm with a non-empty worker set of positive total stake,   *)
(* get_contract_addresses(W) returns, each once, exactly the confirmed      *)
(* addresses the selector assigns to W; the lists of two workers share no   *)
(* address, and the lists of the workers of the snapshot together hold      *)
(* every confirmed address.                                                 *)
C9_ConfirmThenQuery ==
    ( /\ last_confirm.called
      /\ Len(last_confirm.worker_params.workers) > 0
      /\ SumStakes(last_confirm.worker_params.stakes, 1) > 0 ) =>
       /\ \A w \in Queried :
             /\ IsOk(query[w])
             /\ Range(query[w].val) = AssignedTo(w)
             /\ Len(query[w].val) = Cardinality(AssignedTo(w))
       /\ \A w1, w2 \in Queried :
             w1 # w2 => Range(query[w1].val) \cap Range(query[w2].val) = {}
       /\ Range(last_confirm.worker_params.workers) \subseteq Queried =>
             UNION {Range(query[w].val) : w \in Range(last_confirm.worker_params.workers)}
                = ConfirmedAddrs

C9_Witness ==
    /\ last_confirm.called
    /\ Range(last_confirm.worker_params.workers) = {"wA", "wB"}
    /\ ConfirmedAddrs = ScAddrs
    /\ Queried = WorkerAddrs
    /\ Len(query["wA"].val) = 1
    /\ Len(query["wB"].val) = 1
    /\ query["wC"] = Ok(<<>>)

(* C10: get_contract_addresses returns Err(UnconfirmedState) for every      *)
(* worker while confirm has not been called on the epoch, and Ok for every  *)
(* worker once it has.                                                      *)
C10_UnconfirmedQueryFails ==
    \A w \in Queried :
       IF last_confirm.called
       THEN IsOk(query[w])
       ELSE query[w] = Err("UnconfirmedState")

C10_Witness ==
    /\ ~last_confirm.called
    /\ Queried = WorkerAddrs
    /\ \A w \in WorkerAddrs : query[w] = Err("UnconfirmedState")

(* C14: a call whose ecall came back with a return value other than        *)
(* Success, or with a status other than SGX_SUCCESS, returned               *)
(* Err(Failure) with both codes, whether or not an epoch was supplied.      *)
C14_FailureSurfaced ==
    \A t \in Threads :
       ( /\ pc[t] = "idle"
         /\ result[t] # NoResult
         /\ (retval[t] # "Success" \/ status[t] # "SGX_SUCCESS") ) =>
          result[t] = Err([err |-> retval[t], status |-> status[t]])

C14_Witness ==
    \E t, u \in Threads :
       /\ pc[t] = "idle"
       /\ pc[u] = "idle"
       /\ epoch[t].some
       /\ retval[t] = "Success"
       /\ status[t] = "SGX_ERROR_ENCLAVE_LOST"
       /\ IsErr(result[t])
       /\ ~epoch[u].some
       /\ retval[u] = "SigningError"
       /\ status[u] = "SGX_SUCCESS"
       /\ IsErr(result[u])

C11_ConfirmOnce ==
    [][signed_epoch.confirmed_state.some =>
          signed_epoch'.confirmed_state = signed_epoch.confirmed_state]_vars

\* The address-to-worker map of the entity
SelectedWorkers == signed_epoch.confirmed_state.val.selected_workers

(* C16: the address-to-worker map confirm leaves on the entity is the one   *)
(* confirm gives on any other epoch with the same seed, for the same worker *)
(* snapshot and the same addresses in any order, whatever the sequence      *)
(* number, the km block number, the observed block and the calls made       *)
(* before.                                                                  *)
C16_SelectionDeterminism ==
    last_confirm.called =>
       \A n \in 0..MaxCalls, km \in Blocks, b \in Blocks, scs \in ScAddressLists :
          Range(scs) = Range(last_confirm.sc_addresses) =>
             confirm(SignedEpochNew(signed_epoch.seed, ZeroSig, n, km), b,
                     last_confirm.worker_params, scs).confirmed_state.val.selected_workers
                = SelectedWorkers

C16_Witness ==
    /\ last_confirm.called
    /\ DOMAIN SelectedWorkers = ScAddrs
    /\ Cardinality(Range(SelectedWorkers)) = 2

\* The snapshot of the last confirm has workers but no stake at all.
ZeroStake(wp) == Len(wp.workers) > 0 /\ SumStakes(wp.stakes, 1) = 0

(* C18: a confirm that hands the selector a worker set of zero total stake  *)
(* is rejected: it records nothing on the entity.                           *)
C18_ZeroStakeRejected ==
    [][( /\ last_confirm' # last_confirm
         /\ ZeroStake(last_confirm'.worker_params)
         /\ last_confirm'.sc_addresses # <<>> ) =>
          signed_epoch'.confirmed_state = signed_epoch.confirmed_state]_vars

(* C19: after a confirm with an empty worker set the entity is confirmed    *)
(* with an empty address-to-worker map and the observed block, and every    *)
(* query on it returned Ok with an empty list.                              *)
C19_EmptyWorkerSet ==
    (last_confirm.called /\ last_confirm.worker_params.workers = <<>>) =>
       /\ signed_epoch.confirmed_state =
             Some([selected_workers |-> <<>>,
                   ether_block_number |-> last_confirm.ether_block_number])
       /\ \A w \in Queried : query[w] = Ok(<<>>)

C19_Witness ==
    /\ last_confirm.called
    /\ last_confirm.worker_params.workers = <<>>
    /\ Len(last_confirm.sc_addresses) = 2
    /\ Queried = WorkerAddrs
    /\ \A w \in WorkerAddrs : query[w] = Ok(<<>>)

(* C20: the entity a mint request returned has no confirmed_state, and has  *)
(* none as long as confirm has not been called on it, whatever queries are  *)
(* made.                                                                    *)
C20_FreshUnconfirmed ==
    ~last_confirm.called => signed_epoch.confirmed_state = None

C20_Witness ==
    /\ ~last_confirm.called
    /\ signed_epoch.nonce = 2
    /\ signed_epoch.seed = 258
    /\ query["wA"] = Err("UnconfirmedState")
    /\ query["wB"] = NoResult

(* C22: every confirm, whatever observed block it is given, leaves the      *)
(* entity confirmed with that block as ether_block_number and with its      *)
(* km_block_number as it was.                                               *)
C22_ObservedBlockRecorded ==
    [][last_confirm' # last_confirm =>
          /\ signed_epoch'.confirmed_state.some
          /\ signed_epoch'.confirmed_state.val.ether_block_number
                = last_confirm'.ether_block_number
          /\ signed_epoch'.km_block_number = signed_epoch.km_block_number]_vars

C22_Witness ==
    /\ last_confirm.called
    /\ last_confirm.ether_block_number = 2
    /\ last_confirm.worker_params.km_block_number = 2
    /\ signed_epoch.km_block_number = 1
    /\ signed_epoch.confirmed_state.val.ether_block_number = 2

----------------------------------------------------------------------------
(* Properties of the lookup                                                 *)

\* Only ecall_get_epoch_worker_internal writes `lookup`.
LookupStep == lookup' # lookup

(* C12: a lookup with no block number on a non-empty map finds the entry    *)
(* whose sequence number is the maximum of the map, and finds nothing when  *)
(* the map is empty and there is no sealed nonce document.                  *)
C12_LookupCurrent ==
    [][(LookupStep /\ ~lookup'.block_number.some) =>
          /\ DOMAIN EPOCH # {} =>
                \E n \in DOMAIN EPOCH :
                   /\ lookup'.found = Ok(Some(EPOCH[n]))
                   /\ EPOCH[n].nonce = n
                   /\ \A k \in DOMAIN EPOCH : k <= n
          /\ (DOMAIN EPOCH = {} /\ ~is_document(nonce_sealed)) =>
                lookup'.found = Ok(None)]_vars

C12_Witness ==
    /\ lookup.called
    /\ ~lookup.block_number.some
    /\ DOMAIN EPOCH = {0, 1}
    /\ lookup.found = Ok(Some(EPOCH[1]))

(* C13: a lookup with a block number ends in an error, with no epoch found  *)
(* and no worker selected, and leaves the map, the mutex and the sealed     *)
(* nonce document as they were.                                             *)
C13_BlockLookupRejected ==
    [][(LookupStep /\ lookup'.block_number.some) =>
          /\ IsErr(lookup'.found)
          /\ IsErr(lookup'.worker)
          /\ UNCHANGED store_vars]_vars

C13_Witness ==
    /\ lookup.called
    /\ lookup.block_number.some
    /\ DOMAIN EPOCH # {}
    /\ lookup.worker = Err("WorkerAuthError")

\* The epoch the minting thread was last given is the one the last lookup
\* found: same sequence number, minted by the same call.
LookupFoundMinted ==
    /\ lookup.called
    /\ IsOk(lookup.found)
    /\ lookup.found.val.some
    /\ pc[Minter] = "idle"
    /\ ~epoch[Minter].some
    /\ IsOk(result[Minter])
    /\ lookup.found.val.val.nonce = result[Minter].val.nonce
    /\ lookup.found.val.val.worker_params.block_number = result[Minter].val.km_block_number

\* What confirm on the caller's side records for the address of the last
\* lookup, given the snapshot the epoch was minted with
HostSelection ==
    confirm(result[Minter].val, 1, WorkerParamsAt(result[Minter].val.km_block_number),
            <<lookup.sc_addr>>).confirmed_state.val.selected_workers

(* C17: when the lookup found the epoch the caller was given, the worker    *)
(* the enclave selected for the address is the one confirm records for it   *)
(* on the caller's side with the snapshot of the mint; when the enclave     *)
(* selected none, confirm records none.                                     *)
C17_HostEnclaveAgree ==
    LookupFoundMinted =>
       IF IsOk(lookup.worker)
       THEN HostSelection = (lookup.sc_addr :> lookup.worker.val)
       ELSE HostSelection = <<>>

C17_Witness ==
    /\ LookupFoundMinted
    /\ result[Minter].val.seed = 258
    /\ result[Minter].val.km_block_number = 1
    /\ lookup.worker = Ok("wB")

----------------------------------------------------------------------------
(* Further properties of the Secure Epoch Store                             *)

\* The errors of the primitives the mint uses: loading the sealed document,
\* the random source, sealing and saving, encoding and signing.
PrimitiveFailures == {"DocumentStorageError", "SgxError", "SigningError"}

(* C21: a mint request that is back either returned an unconfirmed epoch,   *)
(* or failed with the error of an enclave primitive or with a lost enclave: *)
(* no request is refused for the number of epochs the map holds.            *)
C21_NoCap ==
    \A t \in Threads :
       (pc[t] = "idle" /\ ~epoch[t].some /\ result[t] # NoResult) =>
          \/ /\ IsOk(result[t])
             /\ result[t].val.confirmed_state = None
          \/ /\ IsErr(result[t])
             /\ \/ result[t].err.status = "SGX_ERROR_ENCLAVE_LOST"
                \/ result[t].err.err \in PrimitiveFailures

C21_Witness ==
    /\ restarts = 0
    /\ Len(returned) = MaxCalls
    /\ DOMAIN EPOCH = 0..(MaxCalls - 1)
    /\ \A t \in Threads : pc[t] = "idle" /\ IsOk(result[t])

\* The calls that have not reached the insertion, and those that have not
\* reached the sealing of the marker
NotYetInserted ==
    {t \in Threads : pc[t] \in {"lock", "get_epoch", "rand", "new_epoch", "insert"}}
NotYetSealed ==
    {t \in Threads : pc[t] \in {"lock", "get_epoch", "rand", "new_epoch"}}

(* C23: a call consumes at most one sequence number, whether it succeeds or *)
(* fails: the map never holds more entries, and the sealed document never   *)
(* a number of higher rank, than there were calls that got that far.        *)
C23_NoRetry ==
    /\ Cardinality(DOMAIN EPOCH) + Cardinality(NotYetInserted) <= calls
    /\ is_document(nonce_sealed) =>
          SealedNonce + 1 + Cardinality(NotYetSealed) <= calls

C23_Witness ==
    /\ calls = 2
    /\ \A t \in Threads : pc[t] = "idle"
    /\ \E t, u \in Threads :
          /\ retval[t] = "SigningError"
          /\ IsOk(result[u])
    /\ DOMAIN EPOCH = {0, 1}
    /\ SealedNonce = 1

(* C24: a lookup never runs between a mint's acquiring the mutex and its    *)
(* return, so it never reads a map that is behind the sealed nonce          *)
(* document; and once a mint of this enclave instance has returned Ok, a    *)
(* lookup with no block number finds an epoch at least as new as that one.  *)
C24_ReadersSerialized ==
    [][LookupStep =>
          /\ Critical = {}
          /\ DOMAIN EPOCH # {} =>
                /\ is_document(nonce_sealed)
                /\ SealedNonce = Max(DOMAIN EPOCH)
          /\ ( /\ ~lookup'.block_number.some
               /\ Len(returned) > 0
               /\ returned[Len(returned)].inst = restarts ) =>
                /\ IsOk(lookup'.found)
                /\ lookup'.found.val.some
                /\ lookup'.found.val.val.nonce >= returned[Len(returned)].nonce]_vars

C24_Witness ==
    /\ lookup.called
    /\ pc[Minter] = "lock"
    /\ Len(returned) = 2
    /\ returned[2].inst = restarts
    /\ lookup.found = Ok(Some(EPOCH[1]))

(* C25: while the enclave instance lives, an entry of the map stays under   *)
(* its sequence number with the same seed and worker parameters, and a step *)
(* that changes the map adds one entry whose number is above every number   *)
(* the map held.                                                            *)
C25_SupersededNotDeleted ==
    [][restarts' = restarts =>
          /\ \A n \in DOMAIN EPOCH :
                n \in DOMAIN EPOCH' /\ EPOCH'[n] = EPOCH[n]
          /\ EPOCH' # EPOCH =>
                /\ Cardinality(DOMAIN EPOCH') = Cardinality(DOMAIN EPOCH) + 1
                /\ \A n \in DOMAIN EPOCH : n < Max(DOMAIN EPOCH')]_vars

C25_Witness ==
    /\ restarts = 0
    /\ DOMAIN EPOCH = {0, 1, 2}
    /\ EPOCH[0].seed # EPOCH[1].seed
    /\ EPOCH[0].worker_params # EPOCH[2].worker_params

\* The message the enclave signs for the entity e a mint returned: the
\* encoding of the epoch with e's seed and sequence number and the snapshot
\* submitted in the call, which e's km_block_number identifies.
SignedMessageOf(e) ==
    raw_encode(Epoch(e.nonce, e.seed,
                     decode(encode(WorkerParamsAt(e.km_block_number)))))

(* C26: the signature of every entity a mint returned is the enclave key's  *)
(* signature over that entity's own seed and sequence number and the        *)
(* reference block and worker snapshot of its own call.                     *)
C26_SignatureBinding ==
    \A t \in Threads :
       (pc[t] = "idle" /\ ~epoch[t].some /\ IsOk(result[t])) =>
          result[t].val.sig = Sign(SignedMessageOf(result[t].val))

C26_Witness ==
    \E t, u \in Threads :
       /\ t # u
       /\ pc[t] = "idle" /\ ~epoch[t].some /\ IsOk(result[t])
       /\ pc[u] = "idle" /\ ~epoch[u].some /\ IsOk(result[u])
       /\ result[t].val.seed = 258
       /\ result[u].val.seed = 1
       /\ result[t].val.nonce = result[u].val.nonce + 1

\* Thread t's mint request returns Ok in this step.
MintReturnsOk(t) ==
    /\ pc[t] = "sign"
    /\ pc'[t] = "idle"
    /\ restarts' = restarts
    /\ ~epoch[t].some
    /\ IsOk(result'[t])

(* C28: when a mint request returns Ok, the entity the host returns has the  *)
(* seed and the sequence number of the enclave's current epoch, the entry   *)
(* of the map with the largest key, which holds the snapshot submitted in   *)
(* the call; its signature is the enclave's over that entry, and its        *)
(* reference block is the km_block_number of the submitted snapshot.        *)
C28_BothSidesAgree ==
    [][\A t \in Threads :
          MintReturnsOk(t) =>
             LET cur == EPOCH'[Max(DOMAIN EPOCH')]
                 e == result'[t].val
             IN  /\ DOMAIN EPOCH' # {}
                 /\ e.seed = cur.seed
                 /\ e.nonce = cur.nonce
                 /\ e.nonce = Max(DOMAIN EPOCH')
                 /\ e.sig = Sign(raw_encode(cur))
                 /\ e.km_block_number = worker_params[t].km_block_number
                 /\ cur.worker_params = decode(encode(worker_params[t]))]_vars

C28_Witness ==
    /\ guard = NoThread
    /\ DOMAIN EPOCH = {0, 1}
    /\ \E t \in Threads :
          /\ pc[t] = "idle" /\ ~epoch[t].some /\ IsOk(result[t])
          /\ result[t].val.nonce = 1
          /\ result[t].val.seed = 258
          /\ EPOCH[1].seed = 258
          /\ result[t].val.sig = Sign(raw_encode(EPOCH[1]))
          /\ result[t].val.km_block_number = EPOCH[1].worker_params.block_number

\* Thread t's call returns an error of the enclave from position `at`.
MintFailsAt(t, at) ==
    /\ pc[t] = at
    /\ pc'[t] = "idle"
    /\ restarts' = restarts
    /\ IsErr(result'[t])

\* The number a mint that succeeds would return on the store (m, doc).
NextMintNonce(m, doc) == NextNonce(get_epoch(m, None, doc, TRUE).val, m)

\* The sealed document the mint of number n found in an enclave that was
\* never replaced.
LedgerBefore(n) ==
    IF n = INIT_NONCE THEN NoDocument ELSE SealedDocument(ToBigEndian(n - 1))

(* C29, as stated: a call that returns an error from the random source,     *)
(* from sealing and saving the marker, or from encoding and signing leaves  *)
(* the map without an entry for the attempted number, and the next mint     *)
(* would return that number.                                                *)
C29_FailedMintLeavesStore ==
    [][\A t \in Threads : \A at \in {"rand", "new_epoch", "sign"} :
          MintFailsAt(t, at) =>
             /\ nonce[t] \notin DOMAIN EPOCH'
             /\ NextMintNonce(EPOCH', nonce_sealed') = nonce[t]
             /\ restarts = 0 => nonce_sealed' = LedgerBefore(nonce[t])]_vars

(* C29, amended: a failure of the random source or of sealing and saving    *)
(* the marker leaves the map and the sealed document as the call found      *)
(* them, and the next mint would return the attempted number; a failure of  *)
(* encoding or signing comes after the marker is saved and the epoch is     *)
(* inserted, so the map keeps the entry, the document the number, and the   *)
(* next mint would return the following number.  Within one enclave the     *)
(* store changes only where new_epoch saves the marker and inserts.         *)
C29_FailedMintEffect ==
    [][/\ \A t \in Threads : \A at \in {"rand", "new_epoch"} :
             MintFailsAt(t, at) =>
                /\ guard = t
                /\ EPOCH' = EPOCH /\ nonce_sealed' = nonce_sealed
                /\ nonce[t] \notin DOMAIN EPOCH'
                /\ NextMintNonce(EPOCH', nonce_sealed') = nonce[t]
                /\ restarts = 0 => nonce_sealed' = LedgerBefore(nonce[t])
       /\ \A t \in Threads :
             MintFailsAt(t, "sign") =>
                /\ guard = t
                /\ EPOCH' = EPOCH /\ nonce_sealed' = nonce_sealed
                /\ nonce[t] = Max(DOMAIN EPOCH')
                /\ nonce_sealed' = SealedDocument(ToBigEndian(nonce[t]))
                /\ NextMintNonce(EPOCH', nonce_sealed') = nonce[t] + 1
       /\ (restarts' = restarts /\ nonce_sealed' # nonce_sealed) =>
             /\ EPOCH' = EPOCH
             /\ \E t \in Threads :
                   /\ guard = t /\ pc[t] = "new_epoch" /\ pc'[t] = "insert"
                   /\ nonce_sealed' = SealedDocument(ToBigEndian(nonce[t]))
       /\ (restarts' = restarts /\ EPOCH' # EPOCH) =>
             /\ nonce_sealed' = nonce_sealed
             /\ \E t \in Threads :
                   /\ guard = t /\ pc[t] = "insert" /\ pc'[t] = "sign"
                   /\ DOMAIN EPOCH' = DOMAIN EPOCH \cup {nonce[t]}]_vars

C29_Witness ==
    /\ restarts = 0
    /\ calls = 3
    /\ DOMAIN EPOCH = {0, 1}
    /\ SealedNonce = 1
    /\ returned = <<[nonce |-> 1, inst |-> 0]>>
    /\ \E t, u \in Threads :
          /\ IsErr(result[t]) /\ result[t].err.err = "SigningError"
          /\ IsErr(result[u]) /\ result[u].err.err = "SgxError"
          /\ pc[t] = "idle" /\ pc[u] = "idle"

(* C30: when a mint returns Ok, the number in the sealed document is the    *)
(* largest key of the map and the number returned; and whenever no call     *)
(* holds the guard and the map is not empty, the sealed document holds the  *)
(* map's largest key.                                                       *)
C30_SealedAndCached ==
    [][/\ \A t \in Threads :
             MintReturnsOk(t) =>
                /\ is_document(nonce_sealed')
                /\ DOMAIN EPOCH' # {}
                /\ FromBigEndian(nonce_sealed'.data) = Max(DOMAIN EPOCH')
                /\ Max(DOMAIN EPOCH') = result'[t].val.nonce
       /\ (guard' = NoThread /\ DOMAIN EPOCH' # {}) =>
             /\ is_document(nonce_sealed')
             /\ FromBigEndian(nonce_sealed'.data) = Max(DOMAIN EPOCH')]_vars

C30_Witness ==
    /\ restarts = 1
    /\ guard = NoThread
    /\ DOMAIN EPOCH = {0}
    /\ SealedNonce = 0
    /\ Len(returned) = 2
    /\ returned[1] = [nonce |-> 0, inst |-> 0]
    /\ returned[2] = [nonce |-> 0, inst |-> 1]

----------------------------------------------------------------------------
(* Termination of the calls into the store                                  *)

\* The positions of a call at which it holds the guard.
HoldsGuard(t) ==
    pc[t] \in {"get_epoch", "rand", "new_epoch", "insert", "sign", "lookup"}

(* C31: a thread holds the guard exactly while it is between taking it and  *)
(* returning, so no call waits for a guard it holds itself and none returns *)
(* with it; and with a fair mutex and terminating enclave steps every mint  *)
(* call and every lookup call that was started returns.                     *)
C31_CallsReturn ==
    /\ [](\A t \in Threads : guard = t <=> HoldsGuard(t))
    /\ \A t \in Threads : (pc[t] # "idle") ~> (pc[t] = "idle")

C31_Witness ==
    /\ pc[Reader] = "lookup_lock"
    /\ guard = Minter
    /\ pc[Minter] = "sign"
    /\ calls = 2
    /\ DOMAIN EPOCH = {0}

----------------------------------------------------------------------------
(* Further properties of the lookup                                         *)

(* C32: a lookup with no block number on an empty map finds no epoch and    *)
(* returns an error instead of a worker, before the first mint as well as   *)
(* after the enclave was replaced and the sealed nonce document kept.       *)
C32_EmptyMapLookupFails ==
    [][(LookupStep /\ ~lookup'.block_number.some /\ DOMAIN EPOCH = {}) =>
          /\ lookup'.found \in {Ok(None), Err("DocumentStorageError")}
          /\ IsErr(lookup'.worker)
          /\ lookup'.found = Ok(None) => lookup'.worker = Err("WorkerAuthError")
          /\ ~is_document(nonce_sealed) => lookup'.found = Ok(None)]_vars

C32_Witness ==
    /\ restarts = 1
    /\ DOMAIN EPOCH = {}
    /\ is_document(nonce_sealed) /\ nonce_sealed.intact
    /\ SealedNonce = 1
    /\ lookup.called
    /\ ~lookup.block_number.some
    /\ lookup.found = Err("DocumentStorageError")
    /\ lookup.worker = Err("DocumentStorageError")

(* C33: a lookup, whatever it returns, leaves the map, the mutex and the    *)
(* sealed nonce document as they were and touches no call in flight, so the *)
(* number the next mint returns is the same after the lookup as before it.  *)
C33_LookupReadOnly ==
    [][LookupStep =>
          /\ EPOCH' = EPOCH
          /\ nonce_sealed' = nonce_sealed
          /\ guard' = guard
          /\ UNCHANGED <<call_vars, hist_vars>>
          /\ NextMintNonce(EPOCH', nonce_sealed') = NextMintNonce(EPOCH, nonce_sealed)]_vars

C33_Witness ==
    /\ restarts = 0
    /\ returned = <<[nonce |-> 0, inst |-> 0], [nonce |-> 1, inst |-> 0]>>
    /\ DOMAIN EPOCH = {0, 1}
    /\ lookup.called
    /\ IsOk(lookup.found) /\ lookup.found.val.some
    /\ lookup.found.val.val.nonce = 0
    /\ IsOk(lookup.worker)

----------------------------------------------------------------------------
(* Frame of the entity's operations                                         *)

\* A get_contract_addresses call returns in this step.
QueryStep == \E w \in WorkerAddrs : query'[w] # query[w] /\ query'[w] # NoResult

(* C34: no call on the entity changes its seed, its sequence number, its    *)
(* km block number or its signature: confirm changes confirmed_state only,  *)
(* and get_contract_addresses leaves the whole entity as it was.            *)
C34_ConfirmFrame ==
    [][/\ signed_epoch'.seed = signed_epoch.seed
       /\ signed_epoch'.nonce = signed_epoch.nonce
       /\ signed_epoch'.km_block_number = signed_epoch.km_block_number
       /\ signed_epoch'.sig = signed_epoch.sig
       /\ DOMAIN signed_epoch' = DOMAIN signed_epoch
       /\ QueryStep =>
             /\ signed_epoch' = signed_epoch
             /\ last_confirm' = last_confirm
             /\ UNCHANGED <<store_vars, call_vars, hist_vars>>]_vars

C34_Witness ==
    /\ last_confirm.called
    /\ signed_epoch.seed = 258
    /\ signed_epoch.nonce = 1
    /\ signed_epoch.km_block_number = 2
    /\ signed_epoch.sig = Sign(SignedMessageOf(signed_epoch))
    /\ signed_epoch.confirmed_state.some
    /\ DOMAIN signed_epoch.confirmed_state.val.selected_workers = ScAddrs
    /\ IsOk(query["wA"]) /\ Len(query["wA"].val) > 0

----------------------------------------------------------------------------
(* Shape of the map                                                         *)

(* C35: every entry of the map is stored under the sequence number its      *)
(* epoch carries, and the call that is about to insert does so under a key  *)
(* the map does not hold, larger than every key it holds.                   *)
C35_KeyedByNonce ==
    /\ \A n \in DOMAIN EPOCH : EPOCH[n].nonce = n
    /\ \A t \in Threads :
          pc[t] \in {"rand", "new_epoch", "insert"} =>
             /\ nonce[t] \notin DOMAIN EPOCH
             /\ \A n \in DOMAIN EPOCH : n < nonce[t]
    /\ \A t \in Threads :
          pc[t] = "sign" => (nonce[t] \in DOMAIN EPOCH /\ EPOCH[nonce[t]] = NewEpochOf(t))

C35_Witness ==
    /\ restarts = 0
    /\ DOMAIN EPOCH = {0, 1}
    /\ EPOCH[0].nonce = 0 /\ EPOCH[1].nonce = 1
    /\ EPOCH[0].seed = EPOCH[1].seed
    /\ \E t \in Threads : pc[t] = "insert" /\ nonce[t] = 2

----------------------------------------------------------------------------
(* The request of the ecall                                                 *)

AllZero(buf) == \A i \in 1..BufLen : Byte(buf, i) = 0

\* buf holds n as 32 bytes, the most significant first.
Holds(buf, n) ==
    /\ \A i \in 1..BufLen : Byte(buf, i) = (IF i \in Low THEN ByteOf(n, i) ELSE 0)
    /\ FromBigEndian(buf) = n

\* The worker snapshot reaches the enclave as its RLP encoding.
SnapshotPassed(t) ==
    /\ worker_params[t] = WorkerParamsAt(calls)
    /\ decode(encode(worker_params[t])).block_number = worker_params[t].km_block_number
    /\ decode(encode(worker_params[t])).workers = worker_params[t].workers
    /\ decode(encode(worker_params[t])).stakes = worker_params[t].stakes
    /\ pc[t] = "sign" => EPOCH[nonce[t]].worker_params = decode(encode(WorkerParamsAt(calls)))

(* C36, as stated: during a call seed_in and nonce_in are both all-zero      *)
(* exactly when no epoch was supplied; otherwise seed_in holds the supplied  *)
(* epoch's seed and nonce_in its sequence number; and the enclave gets the   *)
(* RLP encoding of the supplied snapshot.                                    *)
C36_ZeroExactlyWhenMint ==
    \A t \in InFlight :
       /\ (AllZero(seed_in[t]) /\ AllZero(nonce_in[t])) <=> ~epoch[t].some
       /\ epoch[t].some =>
             /\ Holds(seed_in[t], epoch[t].val.seed)
             /\ Holds(nonce_in[t], epoch[t].val.nonce)
       /\ SnapshotPassed(t)

(* C36, amended: during a call without a supplied epoch seed_in and         *)
(* nonce_in are all-zero; with one, seed_in holds its seed and nonce_in its *)
(* sequence number, so both are all-zero only for an epoch whose seed and   *)
(* sequence number are both 0; and the enclave gets the RLP encoding of the *)
(* supplied snapshot.                                                       *)
C36_RequestEncoding ==
    \A t \in InFlight :
       /\ ~epoch[t].some => (AllZero(seed_in[t]) /\ AllZero(nonce_in[t]))
       /\ epoch[t].some =>
             /\ Holds(seed_in[t], epoch[t].val.seed)
             /\ Holds(nonce_in[t], epoch[t].val.nonce)
             /\ (AllZero(seed_in[t]) /\ AllZero(nonce_in[t])) <=>
                   (epoch[t].val.seed = 0 /\ epoch[t].val.nonce = 0)
       /\ SnapshotPassed(t)

C36_Witness ==
    /\ calls = 2
    /\ pc[Minter] = "sign"
    /\ epoch[Minter] = Some(ZeroEpoch)
    /\ AllZero(seed_in[Minter]) /\ AllZero(nonce_in[Minter])
    /\ worker_params[Minter].km_block_number = 2
    /\ IsOk(result[Minter]) = FALSE

====
